---- MODULE Spec2Model ----
(***************************************************************************)
(* Token cache and impersonated-credential exchange of duizendstra/go.     *)
(*                                                                         *)
(* The model follows google/auth/serviceaccount: the TokenCache            *)
(* (token_cache.go, sync.Mutex version) and GenerateGoogleHTTPClient with  *)
(* its helpers createJWTAssertion and getAccessToken.  Goroutines are the  *)
(* processes of Procs; every lock operation, map access and network call   *)
(* is a step of its own, so that calls interleave as they do in Go.        *)
(*                                                                         *)
(* Around that core the module also follows NewGoogleBaseServiceClient     *)
(* (google/services), apierrors.HandleError, the StructuredLogger's level  *)
(* filter, the RWMutex version of the TokenCache and cloudtasks            *)
(* EnqueueTask, each under a specification of its own.                     *)
(***************************************************************************)
EXTENDS Integers, Sequences, FiniteSets, TLC

VARIABLES now, mu, tokens, pc, op, req, args, loc, ret, gh, lastSet, ops,
          owner, refs, sl, rwmu

vars ==
    <<now, mu, tokens, pc, op, req, args, loc, ret, gh, lastSet, ops, owner,
      refs, sl, rwmu>>

(***************************************************************************)
(* Bounds of the model.                                                    *)
(***************************************************************************)
NumProcs == 2

MaxOps == 2

MaxTicks == 1

TickSeconds == 5

StartTime == 100

MaxRequests == 2

MaxCacheOps == 3

Procs == 1..NumProcs

(***************************************************************************)
(* Time and tokens.  An oauth2.Token is {AccessToken, Expiry}; a nil       *)
(* *oauth2.Token is NilToken.  ZeroTime is the zero time.Time, which       *)
(* oauth2 reads as "never expires".                                        *)
(***************************************************************************)
ZeroTime == 0

ExpiryDelta == 10

StatusOK == 200

NilToken == [isNil |-> TRUE, AccessToken |-> "", Expiry |-> ZeroTime]

Token(accessToken, expiry) ==
    [isNil |-> FALSE, AccessToken |-> accessToken, Expiry |-> expiry]

\* oauth2.Token.expired: a zero Expiry never expires; otherwise the token
\* counts as expired ExpiryDelta seconds before its Expiry.
expired(t, at) ==
    IF t.Expiry = ZeroTime THEN FALSE ELSE t.Expiry - ExpiryDelta < at

\* oauth2.Token.Valid: t != nil && t.AccessToken != "" && !t.expired()
Valid(t, at) ==
    /\ ~t.isNil
    /\ t.AccessToken # ""
    /\ ~expired(t, at)

(***************************************************************************)
(* Inputs the callers draw from.                                           *)
(***************************************************************************)
UserEmails == {"u"}

ScopeLists == {<<"a">>, <<"a", "b">>, <<"b", "a">>, <<"a,b">>}

\* An expiry already past at the start, and one that is valid at the start
\* and comes within ExpiryDelta of the clock after one tick.
Expiries == {StartTime - 5, StartTime + ExpiryDelta}

CallerTokens ==
    {NilToken, Token("", StartTime + ExpiryDelta)}
        \cup {Token("t1", e) : e \in Expiries}

\* GetClient requests: one with every input given, and one for each input
\* left empty.
Request(sa, userEmail, scopes) ==
    [targetServiceAccount |-> sa, userEmail |-> userEmail, scopes |-> scopes]

Requests ==
    {Request("sa", "u", "a"), Request("", "u", "a"),
     Request("sa", "", "a"), Request("sa", "u", "")}

\* What the IAM signer answers: a signed JWT, or an error.
SignedJwts == {"signed_jwt"}

SignErrors == {"Gaia id not found for email", "permission denied"}

\* What the token endpoint answers: the transport fails, or a response
\* with a status and a body.
TokenBody == "{\"access_token\":\"T\"}"

Response(failed, status, body) ==
    [failed |-> failed, StatusCode |-> status, body |-> body]

Responses ==
    {Response(TRUE, 0, ""),
     Response(FALSE, 200, TokenBody), Response(FALSE, 200, "{}"),
     Response(FALSE, 200, "bad request"), Response(FALSE, 201, TokenBody),
     Response(FALSE, 400, "bad request"), Response(FALSE, 404, TokenBody),
     Response(FALSE, 500, "")}

NoResp == Response(FALSE, 0, "")

(***************************************************************************)
(* getKey: fmt.Sprintf("%s|%s", userEmail, strings.Join(scopes, ","))      *)
(***************************************************************************)
RECURSIVE Join(_, _)
Join(elems, sep) ==
    IF Len(elems) = 0 THEN ""
    ELSE IF Len(elems) = 1 THEN elems[1]
    ELSE elems[1] \o sep \o Join(Tail(elems), sep)

getKey(userEmail, scopes) == userEmail \o "|" \o Join(scopes, ",")

(***************************************************************************)
(* Errors: a Go error is a kind with its chain of wrapping contexts        *)
(* (outermost first); a GoogleAPIError also carries StatusCode and Body.   *)
(***************************************************************************)
NoErr == [kind |-> "nil", ctx |-> <<>>, StatusCode |-> 0, Body |-> ""]

NewError(kind, msg) ==
    [kind |-> kind, ctx |-> <<>>, StatusCode |-> 0, Body |-> msg]

GoogleAPIError(status, body) ==
    [kind |-> "GoogleAPIError", ctx |-> <<>>, StatusCode |-> status, Body |-> body]

\* fmt.Errorf("<context>: %w", err)
Errorf(context, err) == [err EXCEPT !.ctx = <<context>> \o @]

NilClient == [isNil |-> TRUE, AccessToken |-> ""]

\* oauth2.NewClient(ctx, oauth2.StaticTokenSource(&oauth2.Token{AccessToken: t}))
NewClient(accessToken) == [isNil |-> FALSE, AccessToken |-> accessToken]

\* JWTClaims, the payload createJWTAssertion marshals.
NoJWT == [Iss |-> "", Sub |-> "", Scope |-> "", Aud |-> "", Iat |-> 0, Exp |-> 0]

EmptyMap == [k \in {} |-> NilToken]

\* A sync.RWMutex: the goroutines holding it for reading, the one holding it
\* for writing, and the one that has called Lock and waits for the readers.
RWUnlocked == [readers |-> {}, writer |-> 0, pending |-> 0]

\* What a handler has written to its http.ResponseWriter: status and body.
NoWritten == [StatusCode |-> 0, Body |-> ""]

(***************************************************************************)
(* The StructuredLogger (google/structuredlogger/structured.go).  Level is *)
(* the minimum level of its slog handler and buf what has been written to  *)
(* its writer, one severity per entry.  setTo, logged and wrote remember   *)
(* the last SetLogLevel argument and the last Log call, for the properties *)
(* only.                                                                   *)
(***************************************************************************)
LevelDebug == -4

LevelInfo == 0

LevelWarn == 4

LevelError == 8

LevelNotice == LevelInfo + 1

LevelCritical == LevelError + 1

LevelAlert == LevelError + 2

LevelEmergency == LevelError + 3

\* slog.NewJSONHandler(writer, &slog.HandlerOptions{AddSource: false}): with
\* no Level option the handler's minimum is LevelInfo.
NewStructuredLogger ==
    [Level |-> LevelInfo, buf |-> <<>>, setTo |-> "", logged |-> "",
     wrote |-> FALSE]

(***************************************************************************)
(* Per-call records.                                                       *)
(***************************************************************************)
NoReq == [targetServiceAccount |-> "", userEmail |-> "", scopes |-> ""]

NoArgs == [userEmail |-> "", scopes |-> <<>>, token |-> NilToken]

\* What GetClient returns: (*http.Client, error).
NoRet == [client |-> NilClient, err |-> NoErr]

\* The frame of an EnqueueTask call: its inputs, the state of the task client
\* it created, the CreateTask requests it issued and the error it returns.
NoTask ==
    [taskName |-> "", body |-> "", client |-> "none", creates |-> 0,
     err |-> NoErr]

NoLoc ==
    [key |-> "", token |-> NilToken, rtoken |-> NilToken, rfound |-> FALSE,
     jwtAssertion |-> NoJWT, signedJwt |-> "", accessToken |-> "",
     authHeader |-> "", ctxDone |-> FALSE, err |-> NoErr, w |-> NoWritten,
     svc |-> NoRet, tk |-> NoTask]

\* url.Values of the request to the token endpoint.
NoForm == [grant_type |-> "", assertion |-> ""]

\* History of the call in progress, kept for the properties only.
NoGh ==
    [clock |-> 0, seen |-> "none", seenToken |-> NilToken,
     evictions |-> 0, stores |-> 0, built |-> FALSE,
     signCalls |-> 0, postCalls |-> 0, failed |-> "none", lookup |-> "none",
     requests |-> 0, resp |-> NoResp, replaced |-> NilToken,
     cancelledAt |-> "none", builtAt |-> 0, signed |-> "", form |-> NoForm]

Init ==
    /\ now = StartTime
    /\ mu = 0
    /\ tokens = EmptyMap
    /\ pc = [p \in Procs |-> "idle"]
    /\ op = [p \in Procs |-> "none"]
    /\ req = [p \in Procs |-> NoReq]
    /\ args = [p \in Procs |-> NoArgs]
    /\ loc = [p \in Procs |-> NoLoc]
    /\ ret = [p \in Procs |-> NoRet]
    /\ gh = [p \in Procs |-> NoGh]
    /\ lastSet = EmptyMap
    /\ ops = 0
    /\ owner = [k \in {} |-> NoArgs]
    /\ refs = {}
    /\ sl = NewStructuredLogger
    /\ rwmu = RWUnlocked

Tick ==
    /\ now + TickSeconds =< StartTime + MaxTicks * TickSeconds
    /\ now' = now + TickSeconds
    /\ UNCHANGED <<mu, tokens, pc, op, req, args, loc, ret, gh, lastSet, ops,
                 owner, refs, sl, rwmu>>

(***************************************************************************)
(* Callers.  An idle goroutine starts the next operation; when the         *)
(* operation returns, the goroutine drops its frame and is idle again.     *)
(***************************************************************************)
Ready(self) == pc[self] = "idle" /\ ops < MaxOps

Return(self) ==
    /\ pc' = [pc EXCEPT ![self] = "idle"]
    /\ op' = [op EXCEPT ![self] = "none"]
    /\ req' = [req EXCEPT ![self] = NoReq]
    /\ args' = [args EXCEPT ![self] = NoArgs]
    /\ loc' = [loc EXCEPT ![self] = NoLoc]
    /\ ret' = [ret EXCEPT ![self] = NoRet]
    /\ gh' = [gh EXCEPT ![self] = NoGh]

Begin(self, name, first, r, a) ==
    /\ ops' = ops + 1
    /\ op' = [op EXCEPT ![self] = name]
    /\ pc' = [pc EXCEPT ![self] = first]
    /\ req' = [req EXCEPT ![self] = r]
    /\ args' = [args EXCEPT ![self] = a]
    /\ UNCHANGED <<now, mu, tokens, loc, ret, gh, lastSet, owner, refs, sl, rwmu>>

CallGetToken(self) ==
    /\ Ready(self)
    /\ \E userEmail \in UserEmails, scopes \in ScopeLists :
          Begin(self, "GetToken", "gt_lock", NoReq,
                [userEmail |-> userEmail, scopes |-> scopes, token |-> NilToken])

CallSetToken(self) ==
    /\ Ready(self)
    /\ \E userEmail \in UserEmails, scopes \in ScopeLists, token \in CallerTokens :
          Begin(self, "SetToken", "st_lock", NoReq,
                [userEmail |-> userEmail, scopes |-> scopes, token |-> token])

(***************************************************************************)
(* TokenCache.GetToken (token_cache.go:114-133).                           *)
(***************************************************************************)
\* c.mu.Lock()
GtLock(self) ==
    /\ pc[self] = "gt_lock"
    /\ mu = 0
    /\ mu' = self
    /\ pc' = [pc EXCEPT ![self] = "gt_read"]
    /\ UNCHANGED <<now, tokens, op, req, args, loc, ret, gh, lastSet, ops,
                 owner, refs, sl, rwmu>>

\* GetToken that reports whatever the map holds under the key as found.
GtRead_NilIsFound(self) ==
    /\ pc[self] = "gt_read"
    /\ LET key == getKey(args[self].userEmail, args[self].scopes)
           exists == key \in DOMAIN tokens
           token == IF exists THEN tokens[key] ELSE NilToken
       IN  /\ loc' = [loc EXCEPT ![self].key = key, ![self].token = token,
                                 ![self].rtoken = token, ![self].rfound = exists]
           /\ gh' = [gh EXCEPT ![self].clock = now, ![self].seenToken = token,
                               ![self].seen = IF ~exists THEN "absent"
                                              ELSE IF token.isNil THEN "nil"
                                              ELSE "present"]
           /\ pc' = [pc EXCEPT ![self] =
                        IF ~exists \/ token.isNil THEN "gt_unlock" ELSE "gt_valid"]
    /\ UNCHANGED <<now, mu, tokens, op, req, args, ret, lastSet, ops,
                 owner, refs, sl, rwmu>>

\* key := getKey(...); token, exists := c.tokens[key];
\* if !exists || token == nil { return nil, false }
GtRead(self) ==
    /\ pc[self] = "gt_read"
    /\ LET key == getKey(args[self].userEmail, args[self].scopes)
           exists == key \in DOMAIN tokens
           token == IF exists THEN tokens[key] ELSE NilToken
       IN  /\ loc' = [loc EXCEPT ![self].key = key, ![self].token = token,
                                 ![self].rtoken = NilToken, ![self].rfound = FALSE]
           /\ gh' = [gh EXCEPT ![self].clock = now, ![self].seenToken = token,
                               ![self].seen = IF ~exists THEN "absent"
                                              ELSE IF token.isNil THEN "nil"
                                              ELSE "present"]
           /\ pc' = [pc EXCEPT ![self] =
                        IF ~exists \/ token.isNil THEN "gt_unlock" ELSE "gt_valid"]
    /\ UNCHANGED <<now, mu, tokens, op, req, args, ret, lastSet, ops,
                 owner, refs, sl, rwmu>>

\* GetToken without the expiry check: the token read is returned as is.
GtValid_NoCheck(self) ==
    /\ pc[self] = "gt_valid"
    /\ gh' = [gh EXCEPT ![self].clock = now,
                        ![self].seen = IF Valid(loc[self].token, now)
                                       THEN "valid" ELSE "invalid"]
    /\ pc' = [pc EXCEPT ![self] = "gt_unlock"]
    /\ loc' = [loc EXCEPT ![self].rtoken = loc[self].token,
                          ![self].rfound = TRUE]
    /\ UNCHANGED <<now, mu, tokens, op, req, args, ret, lastSet, ops,
                 owner, refs, sl, rwmu>>

\* GetToken with the check inverted: a valid token is evicted as a miss.
GtValid_Inverted(self) ==
    /\ pc[self] = "gt_valid"
    /\ gh' = [gh EXCEPT ![self].clock = now,
                        ![self].seen = IF Valid(loc[self].token, now)
                                       THEN "valid" ELSE "invalid"]
    /\ IF Valid(loc[self].token, now)
       THEN /\ pc' = [pc EXCEPT ![self] = "gt_delete"]
            /\ loc' = loc
       ELSE /\ pc' = [pc EXCEPT ![self] = "gt_unlock"]
            /\ loc' = [loc EXCEPT ![self].rtoken = loc[self].token,
                                  ![self].rfound = TRUE]
    /\ UNCHANGED <<now, mu, tokens, op, req, args, ret, lastSet, ops,
                 owner, refs, sl, rwmu>>

\* if !token.Valid() { ... } ; return token, true
GtValid(self) ==
    /\ pc[self] = "gt_valid"
    /\ gh' = [gh EXCEPT ![self].clock = now,
                        ![self].seen = IF Valid(loc[self].token, now)
                                       THEN "valid" ELSE "invalid"]
    /\ IF ~Valid(loc[self].token, now)
       THEN /\ pc' = [pc EXCEPT ![self] = "gt_delete"]
            /\ loc' = loc
       ELSE /\ pc' = [pc EXCEPT ![self] = "gt_unlock"]
            /\ loc' = [loc EXCEPT ![self].rtoken = loc[self].token,
                                  ![self].rfound = TRUE]
    /\ refs' = IF Valid(loc[self].token, now) /\ op[self] = "GetToken"
               THEN refs \cup {loc[self].key} ELSE refs
    /\ UNCHANGED <<now, mu, tokens, op, req, args, ret, lastSet, ops, owner, sl, rwmu>>

\* GetToken that hides an expired entry without removing it.
GtDelete_Keep(self) ==
    /\ pc[self] = "gt_delete"
    /\ tokens' = tokens
    /\ loc' = [loc EXCEPT ![self].rtoken = NilToken, ![self].rfound = FALSE]
    /\ gh' = gh
    /\ pc' = [pc EXCEPT ![self] = "gt_unlock"]
    /\ UNCHANGED <<now, mu, op, req, args, ret, lastSet, ops, owner, refs, sl, rwmu>>

\* GetToken that clears out every entry that is no longer valid.
GtDelete_Sweep(self) ==
    /\ pc[self] = "gt_delete"
    /\ tokens' = [k \in {j \in DOMAIN tokens : Valid(tokens[j], now)} |-> tokens[k]]
    /\ loc' = [loc EXCEPT ![self].rtoken = NilToken, ![self].rfound = FALSE]
    /\ gh' = [gh EXCEPT ![self].evictions = @ + 1]
    /\ pc' = [pc EXCEPT ![self] = "gt_unlock"]
    /\ refs' = refs \ {loc[self].key}
    /\ UNCHANGED <<now, mu, op, req, args, ret, lastSet, ops, owner, sl, rwmu>>

\* delete(c.tokens, key); return nil, false
GtDelete(self) ==
    /\ pc[self] = "gt_delete"
    /\ tokens' = [k \in DOMAIN tokens \ {loc[self].key} |-> tokens[k]]
    /\ loc' = [loc EXCEPT ![self].rtoken = NilToken, ![self].rfound = FALSE]
    /\ gh' = [gh EXCEPT ![self].evictions = @ + 1]
    /\ pc' = [pc EXCEPT ![self] = "gt_unlock"]
    /\ refs' = refs \ {loc[self].key}
    /\ UNCHANGED <<now, mu, op, req, args, ret, lastSet, ops, owner, sl, rwmu>>

\* A lookup that keeps the lock on a miss, to release it after the store.
GtUnlock_HeldOnMiss(self) ==
    /\ pc[self] = "gt_unlock"
    /\ mu' = IF op[self] = "GetClient" /\ ~loc[self].rfound THEN mu ELSE 0
    /\ IF op[self] = "GetClient"
       THEN /\ pc' = [pc EXCEPT ![self] = "gc_lookup_ret"]
            /\ UNCHANGED <<op, req, args, loc, ret, gh>>
       ELSE Return(self)
    /\ UNCHANGED <<now, tokens, lastSet, ops, owner, refs, sl, rwmu>>

\* defer c.mu.Unlock(), and the return to the caller
GtUnlock(self) ==
    /\ pc[self] = "gt_unlock"
    /\ mu' = 0
    /\ IF op[self] = "GetClient"
       THEN /\ pc' = [pc EXCEPT ![self] = "gc_lookup_ret"]
            /\ UNCHANGED <<op, req, args, loc, ret, gh>>
       ELSE Return(self)
    /\ UNCHANGED <<now, tokens, lastSet, ops, owner, refs, sl, rwmu>>

(***************************************************************************)
(* TokenCache.SetToken (token_cache.go:136-142).                           *)
(***************************************************************************)
\* SetToken that does not wait for the lock.
StLock_NoWait(self) ==
    /\ pc[self] = "st_lock"
    /\ mu' = self
    /\ pc' = [pc EXCEPT ![self] = "st_write"]
    /\ UNCHANGED <<now, tokens, op, req, args, loc, ret, gh, lastSet, ops,
                 owner, refs, sl, rwmu>>

\* c.mu.Lock()
StLock(self) ==
    /\ pc[self] = "st_lock"
    /\ mu = 0
    /\ mu' = self
    /\ pc' = [pc EXCEPT ![self] = "st_write"]
    /\ UNCHANGED <<now, tokens, op, req, args, loc, ret, gh, lastSet, ops,
                 owner, refs, sl, rwmu>>

\* SetToken that leaves the scopes out of the key it writes under.
StWrite_NoScopes(self) ==
    /\ pc[self] = "st_write"
    /\ LET key == getKey(args[self].userEmail, args[self].scopes)
           wrong == getKey(args[self].userEmail, <<>>)
       IN  /\ tokens' = [k \in DOMAIN tokens \cup {wrong} |->
                            IF k = wrong THEN args[self].token ELSE tokens[k]]
           /\ lastSet' = [k \in DOMAIN lastSet \cup {key} |->
                            IF k = key THEN args[self].token ELSE lastSet[k]]
           /\ owner' = [k \in DOMAIN owner \cup {key} |->
                            IF k = key THEN args[self] ELSE owner[k]]
           /\ refs' = IF op[self] = "SetToken" /\ ~args[self].token.isNil
                      THEN refs \cup {wrong} ELSE refs \ {wrong}
           /\ loc' = [loc EXCEPT ![self].key = key]
    /\ gh' = [gh EXCEPT ![self].stores = @ + 1,
                        ![self].replaced =
                            IF getKey(args[self].userEmail, args[self].scopes)
                                   \in DOMAIN tokens
                            THEN tokens[getKey(args[self].userEmail,
                                               args[self].scopes)]
                            ELSE NilToken]
    /\ pc' = [pc EXCEPT ![self] = "st_unlock"]
    /\ UNCHANGED <<now, mu, op, req, args, ret, ops, sl, rwmu>>

\* SetToken that leaves a valid entry in place instead of overwriting it.
StWrite_KeepValid(self) ==
    /\ pc[self] = "st_write"
    /\ LET key == getKey(args[self].userEmail, args[self].scopes)
           keep == key \in DOMAIN tokens /\ Valid(tokens[key], now)
       IN  /\ tokens' = [k \in DOMAIN tokens \cup {key} |->
                            IF k = key /\ ~keep THEN args[self].token
                            ELSE tokens[k]]
           /\ lastSet' = [k \in DOMAIN lastSet \cup {key} |->
                            IF k = key THEN args[self].token ELSE lastSet[k]]
           /\ owner' = [k \in DOMAIN owner \cup {key} |->
                            IF k = key THEN args[self] ELSE owner[k]]
           /\ refs' = refs
           /\ loc' = [loc EXCEPT ![self].key = key]
    /\ gh' = [gh EXCEPT ![self].stores = @ + 1]
    /\ pc' = [pc EXCEPT ![self] = "st_unlock"]
    /\ UNCHANGED <<now, mu, op, req, args, ret, ops, sl, rwmu>>

\* key := getKey(userEmail, scopes); c.tokens[key] = token
StWrite(self) ==
    /\ pc[self] = "st_write"
    /\ LET key == getKey(args[self].userEmail, args[self].scopes)
       IN  /\ tokens' = [k \in DOMAIN tokens \cup {key} |->
                            IF k = key THEN args[self].token ELSE tokens[k]]
           /\ lastSet' = [k \in DOMAIN lastSet \cup {key} |->
                            IF k = key THEN args[self].token ELSE lastSet[k]]
           /\ owner' = [k \in DOMAIN owner \cup {key} |->
                            IF k = key THEN args[self] ELSE owner[k]]
           /\ refs' = IF op[self] = "SetToken" /\ ~args[self].token.isNil
                      THEN refs \cup {key} ELSE refs \ {key}
           /\ loc' = [loc EXCEPT ![self].key = key]
    /\ gh' = [gh EXCEPT ![self].stores = @ + 1,
                        ![self].replaced =
                            IF getKey(args[self].userEmail, args[self].scopes)
                                   \in DOMAIN tokens
                            THEN tokens[getKey(args[self].userEmail,
                                               args[self].scopes)]
                            ELSE NilToken]
    /\ pc' = [pc EXCEPT ![self] = "st_unlock"]
    /\ UNCHANGED <<now, mu, op, req, args, ret, ops, sl, rwmu>>

\* defer c.mu.Unlock(), and the return to the caller
StUnlock(self) ==
    /\ pc[self] = "st_unlock"
    /\ mu' = 0
    /\ IF op[self] = "GetClient"
       THEN /\ pc' = [pc EXCEPT ![self] = "gc_return"]
            /\ UNCHANGED <<op, req, args, loc, ret, gh>>
       ELSE Return(self)
    /\ UNCHANGED <<now, tokens, lastSet, ops, owner, refs, sl, rwmu>>

(***************************************************************************)
(* createJWTAssertion (unnamed/part_004:204-225).                          *)
(***************************************************************************)
TokenAudience == "https://oauth2.googleapis.com/token"

AssertionLifetime == 3600

\* createJWTAssertion that forgets to require the scopes.
createJWTAssertion_NoScopeCheck(targetServiceAccount, userEmail, scopes, at) ==
    IF targetServiceAccount = "" \/ userEmail = ""
    THEN [jwt |-> NoJWT,
          err |-> NewError("validation",
                    "service account, user email, and scopes must all be provided")]
    ELSE [jwt |-> [Iss |-> targetServiceAccount, Sub |-> userEmail,
                   Scope |-> scopes, Aud |-> TokenAudience,
                   Iat |-> at, Exp |-> at + AssertionLifetime],
          err |-> NoErr]

\* createJWTAssertion that sets exp to the lifetime instead of now + lifetime.
createJWTAssertion_ExpFromZero(targetServiceAccount, userEmail, scopes, at) ==
    IF targetServiceAccount = "" \/ userEmail = "" \/ scopes = ""
    THEN [jwt |-> NoJWT,
          err |-> NewError("validation",
                    "service account, user email, and scopes must all be provided")]
    ELSE [jwt |-> [Iss |-> targetServiceAccount, Sub |-> userEmail,
                   Scope |-> scopes, Aud |-> TokenAudience,
                   Iat |-> at, Exp |-> AssertionLifetime],
          err |-> NoErr]

createJWTAssertion(targetServiceAccount, userEmail, scopes, at) ==
    IF targetServiceAccount = "" \/ userEmail = "" \/ scopes = ""
    THEN [jwt |-> NoJWT,
          err |-> NewError("validation",
                    "service account, user email, and scopes must all be provided")]
    ELSE [jwt |-> [Iss |-> targetServiceAccount, Sub |-> userEmail,
                   Scope |-> scopes, Aud |-> TokenAudience,
                   Iat |-> at, Exp |-> at + AssertionLifetime],
          err |-> NoErr]

(***************************************************************************)
(* getAccessToken (unnamed/part_004:228-259) on the endpoint's answer.     *)
(***************************************************************************)
\* data := url.Values{"grant_type": {...}, "assertion": {signedJwt}}
PostFormData(signedJwt) ==
    [grant_type |-> "urn:ietf:params:oauth:grant-type:jwt-bearer",
     assertion |-> signedJwt]

\* json.NewDecoder(resp.Body).Decode(&tokenResponse): a JSON object decodes,
\* a missing access_token field leaving the empty string; other text fails.
Decode(body) ==
    IF body = TokenBody THEN [ok |-> TRUE, AccessToken |-> "T"]
    ELSE IF body = "{}" THEN [ok |-> TRUE, AccessToken |-> ""]
    ELSE [ok |-> FALSE, AccessToken |-> ""]

\* getAccessToken that takes only the 4xx and 5xx statuses for failures.
getAccessToken_From400(resp) ==
    IF resp.failed
    THEN [accessToken |-> "",
          err |-> Errorf("error posting to token endpoint",
                         NewError("transport", "connection refused"))]
    ELSE IF resp.StatusCode >= 400
    THEN [accessToken |-> "", err |-> GoogleAPIError(resp.StatusCode, resp.body)]
    ELSE IF ~Decode(resp.body).ok
    THEN [accessToken |-> "",
          err |-> Errorf("error unmarshaling token response",
                         NewError("json", "invalid character"))]
    ELSE [accessToken |-> Decode(resp.body).AccessToken, err |-> NoErr]

getAccessToken(resp) ==
    IF resp.failed
    THEN [accessToken |-> "",
          err |-> Errorf("error posting to token endpoint",
                         NewError("transport", "connection refused"))]
    ELSE IF resp.StatusCode # StatusOK
    THEN [accessToken |-> "", err |-> GoogleAPIError(resp.StatusCode, resp.body)]
    ELSE IF ~Decode(resp.body).ok
    THEN [accessToken |-> "",
          err |-> Errorf("error unmarshaling token response",
                         NewError("json", "invalid character"))]
    ELSE [accessToken |-> Decode(resp.body).AccessToken, err |-> NoErr]

(***************************************************************************)
(* GenerateGoogleHTTPClient (GetClient).  The build, sign and exchange     *)
(* stages and the returned client are unnamed/part_004:174-201.  The       *)
(* version of the function that takes the TokenCache is called in          *)
(* google/services/google_base_service_client.go:55 but is not among the   *)
(* sources: its cache lookup and cache store follow spec.md section 4.5,   *)
(* CacheLookup -> [hit: Done] | [miss: BuildAssertion -> Sign -> Exchange  *)
(* -> StoreCache -> Done], keyed by the acting user and the scopes.        *)
(***************************************************************************)
CallGetClient(self) ==
    /\ Ready(self)
    /\ \E r \in Requests : Begin(self, "GetClient", "gc_lookup", r, NoArgs)

\* CacheLookup: tokenCache.GetToken(userEmail, scopes)
GcLookup(self) ==
    /\ pc[self] = "gc_lookup"
    /\ args' = [args EXCEPT ![self] =
                   [userEmail |-> req[self].userEmail,
                    scopes |-> <<req[self].scopes>>, token |-> NilToken]]
    /\ pc' = [pc EXCEPT ![self] = "gt_lock"]
    /\ UNCHANGED <<now, mu, tokens, op, req, loc, ret, gh, lastSet, ops,
                 owner, refs, sl, rwmu>>

\* hit: a client with the cached token is returned; miss: go on to build
GcLookupRet(self) ==
    /\ pc[self] = "gc_lookup_ret"
    /\ IF loc[self].rfound
       THEN /\ ret' = [ret EXCEPT ![self].client =
                          NewClient(loc[self].rtoken.AccessToken),
                                  ![self].err = NoErr]
            /\ gh' = [gh EXCEPT ![self].lookup = "hit"]
            /\ pc' = [pc EXCEPT ![self] = "gc_done"]
       ELSE /\ ret' = ret
            /\ gh' = [gh EXCEPT ![self].lookup = "miss"]
            /\ pc' = [pc EXCEPT ![self] = "gc_build"]
    /\ UNCHANGED <<now, mu, tokens, op, req, args, loc, lastSet, ops,
                 owner, refs, sl, rwmu>>

\* jwtAssertion, err := createJWTAssertion(...); if err != nil { return
\* nil, fmt.Errorf("error creating JWT assertion: %w", err) }
GcBuild(self) ==
    /\ pc[self] = "gc_build"
    /\ LET r == createJWTAssertion(req[self].targetServiceAccount,
                                   req[self].userEmail, req[self].scopes, now)
       IN  IF r.err # NoErr
           THEN /\ ret' = [ret EXCEPT ![self].client = NilClient,
                              ![self].err = Errorf("error creating JWT assertion",
                                                   r.err)]
                /\ gh' = [gh EXCEPT ![self].failed = "build", ![self].built = TRUE,
                                    ![self].builtAt = now]
                /\ pc' = [pc EXCEPT ![self] = "gc_done"]
                /\ loc' = loc
           ELSE /\ loc' = [loc EXCEPT ![self].jwtAssertion = r.jwt]
                /\ gh' = [gh EXCEPT ![self].built = TRUE, ![self].builtAt = now]
                /\ ret' = ret
                /\ pc' = [pc EXCEPT ![self] = "gc_sign"]
    /\ UNCHANGED <<now, mu, tokens, op, req, args, lastSet, ops, owner, refs, sl, rwmu>>

\* signJwtResponse, err := iamClient.SignJwt(ctx, name, jwtAssertion);
\* if err != nil { return nil, fmt.Errorf("error signing JWT: %w", err) }
\* The call goes through iamService...SignJwt(...).Context(ctx).Do(): once ctx
\* is done it returns the context's error.
SignJwtErrors(ctxDone) ==
    IF ctxDone THEN {NewError("context", "context canceled")}
    ELSE {NewError("signer", msg) : msg \in SignErrors}

\* GenerateGoogleHTTPClient that calls the signer a second time when the first
\* call failed.
GcSign_Retry(self) ==
    /\ pc[self] = "gc_sign"
    /\ \/ \E err \in SignJwtErrors(loc[self].ctxDone) :
            /\ ret' = [ret EXCEPT ![self].client = NilClient,
                          ![self].err = Errorf("error signing JWT", err)]
            /\ gh' = [gh EXCEPT ![self].failed =
                                    IF gh[self].signCalls = 0 THEN "none" ELSE "sign",
                                ![self].signCalls = @ + 1]
            /\ pc' = [pc EXCEPT ![self] =
                          IF gh[self].signCalls = 0 THEN "gc_sign" ELSE "gc_done"]
            /\ loc' = loc
       \/ \E jwt \in SignedJwts :
            /\ ~loc[self].ctxDone
            /\ loc' = [loc EXCEPT ![self].signedJwt = jwt]
            /\ gh' = [gh EXCEPT ![self].signCalls = @ + 1, ![self].signed = jwt]
            /\ ret' = ret
            /\ pc' = [pc EXCEPT ![self] = "gc_exchange"]
    /\ UNCHANGED <<now, mu, tokens, op, req, args, lastSet, ops, owner, refs, sl, rwmu>>

\* GenerateGoogleHTTPClient that goes on to the exchange when signing failed.
GcSign_NoReturn(self) ==
    /\ pc[self] = "gc_sign"
    /\ \/ \E err \in SignJwtErrors(loc[self].ctxDone) :
            /\ ret' = [ret EXCEPT ![self].client = NilClient,
                          ![self].err = Errorf("error signing JWT", err)]
            /\ gh' = [gh EXCEPT ![self].failed = "sign", ![self].signCalls = @ + 1]
            /\ pc' = [pc EXCEPT ![self] = "gc_exchange"]
            /\ loc' = loc
       \/ \E jwt \in SignedJwts :
            /\ ~loc[self].ctxDone
            /\ loc' = [loc EXCEPT ![self].signedJwt = jwt]
            /\ gh' = [gh EXCEPT ![self].signCalls = @ + 1, ![self].signed = jwt]
            /\ ret' = ret
            /\ pc' = [pc EXCEPT ![self] = "gc_exchange"]
    /\ UNCHANGED <<now, mu, tokens, op, req, args, lastSet, ops, owner, refs, sl, rwmu>>

GcSign(self) ==
    /\ pc[self] = "gc_sign"
    /\ \/ \E err \in SignJwtErrors(loc[self].ctxDone) :
            /\ ret' = [ret EXCEPT ![self].client = NilClient,
                          ![self].err = Errorf("error signing JWT", err)]
            /\ gh' = [gh EXCEPT ![self].failed = "sign", ![self].signCalls = @ + 1]
            /\ pc' = [pc EXCEPT ![self] = "gc_done"]
            /\ loc' = loc
       \/ \E jwt \in SignedJwts :
            /\ ~loc[self].ctxDone
            /\ loc' = [loc EXCEPT ![self].signedJwt = jwt]
            /\ gh' = [gh EXCEPT ![self].signCalls = @ + 1, ![self].signed = jwt]
            /\ ret' = ret
            /\ pc' = [pc EXCEPT ![self] = "gc_exchange"]
    /\ UNCHANGED <<now, mu, tokens, op, req, args, lastSet, ops, owner, refs, sl, rwmu>>

\* GenerateGoogleHTTPClient that caches what the exchange returned before it
\* looks at the error.
GcExchange_StoreFirst(self) ==
    /\ pc[self] = "gc_exchange"
    /\ \E resp \in Responses :
        LET r == getAccessToken(resp)
            key == getKey(req[self].userEmail, <<req[self].scopes>>)
        IN  IF r.err # NoErr
            THEN /\ ret' = [ret EXCEPT ![self].client = NilClient,
                                       ![self].err = r.err]
                 /\ gh' = [gh EXCEPT ![self].failed = "exchange",
                                     ![self].postCalls = @ + 1,
                                     ![self].stores = @ + 1,
                                     ![self].resp = resp,
                                     ![self].form =
                                         PostFormData(loc[self].signedJwt)]
                 /\ tokens' = [k \in DOMAIN tokens \cup {key} |->
                                  IF k = key THEN Token(r.accessToken, ZeroTime)
                                  ELSE tokens[k]]
                 /\ pc' = [pc EXCEPT ![self] = "gc_done"]
                 /\ loc' = loc
            ELSE /\ loc' = [loc EXCEPT ![self].accessToken = r.accessToken]
                 /\ gh' = [gh EXCEPT ![self].postCalls = @ + 1,
                                     ![self].resp = resp,
                                     ![self].form =
                                         PostFormData(loc[self].signedJwt)]
                 /\ ret' = ret
                 /\ tokens' = tokens
                 /\ pc' = [pc EXCEPT ![self] = "gc_store"]
    /\ UNCHANGED <<now, mu, op, req, args, lastSet, ops, owner, refs, sl, rwmu>>

\* accessToken, err := getAccessToken(logger, tokenUrl, signedJwt);
\* if err != nil { return nil, err }
GcExchange(self) ==
    /\ pc[self] = "gc_exchange"
    /\ \E resp \in Responses :
        LET r == getAccessToken(resp)
        IN  IF r.err # NoErr
            THEN /\ ret' = [ret EXCEPT ![self].client = NilClient,
                                       ![self].err = r.err]
                 /\ gh' = [gh EXCEPT ![self].failed = "exchange",
                                     ![self].postCalls = @ + 1,
                                     ![self].resp = resp,
                                     ![self].form =
                                         PostFormData(loc[self].signedJwt)]
                 /\ pc' = [pc EXCEPT ![self] = "gc_done"]
                 /\ loc' = loc
            ELSE /\ loc' = [loc EXCEPT ![self].accessToken = r.accessToken]
                 /\ gh' = [gh EXCEPT ![self].postCalls = @ + 1,
                                     ![self].resp = resp,
                                     ![self].form =
                                         PostFormData(loc[self].signedJwt)]
                 /\ ret' = ret
                 /\ pc' = [pc EXCEPT ![self] = "gc_store"]
    /\ UNCHANGED <<now, mu, tokens, op, req, args, lastSet, ops, owner, refs, sl, rwmu>>

\* StoreCache: tokenCache.SetToken(userEmail, scopes,
\*                                 &oauth2.Token{AccessToken: accessToken})
GcStore(self) ==
    /\ pc[self] = "gc_store"
    /\ args' = [args EXCEPT ![self] =
                   [userEmail |-> req[self].userEmail,
                    scopes |-> <<req[self].scopes>>,
                    token |-> Token(loc[self].accessToken, ZeroTime)]]
    /\ pc' = [pc EXCEPT ![self] = "st_lock"]
    /\ UNCHANGED <<now, mu, tokens, op, req, loc, ret, gh, lastSet, ops,
                 owner, refs, sl, rwmu>>

\* GenerateGoogleHTTPClient that builds the client without the access token.
GcReturn_NoToken(self) ==
    /\ pc[self] = "gc_return"
    /\ ret' = [ret EXCEPT ![self].client = NewClient(""), ![self].err = NoErr]
    /\ pc' = [pc EXCEPT ![self] = "gc_done"]
    /\ UNCHANGED <<now, mu, tokens, op, req, args, loc, gh, lastSet, ops,
                 owner, refs, sl, rwmu>>

\* tokenSource := oauth2.StaticTokenSource(&oauth2.Token{AccessToken:
\* accessToken}); return oauth2.NewClient(ctx, tokenSource), nil
GcReturn(self) ==
    /\ pc[self] = "gc_return"
    /\ ret' = [ret EXCEPT ![self].client = NewClient(loc[self].accessToken),
                          ![self].err = NoErr]
    /\ pc' = [pc EXCEPT ![self] = "gc_done"]
    /\ UNCHANGED <<now, mu, tokens, op, req, args, loc, gh, lastSet, ops,
                 owner, refs, sl, rwmu>>

\* oauth2.Transport.RoundTrip: the token of the client's token source is set
\* on the request, token.SetAuthHeader: "Authorization: " + Type() + " " +
\* AccessToken, Type() being "Bearer" for a token without a TokenType.
SetAuthHeader(client) == "Bearer " \o client.AccessToken

\* The caller issues a request through the client it was returned.
ClientDo(self) ==
    /\ pc[self] = "gc_done"
    /\ ~ret[self].client.isNil
    /\ gh[self].requests < MaxRequests
    /\ loc' = [loc EXCEPT ![self].authHeader = SetAuthHeader(ret[self].client)]
    /\ gh' = [gh EXCEPT ![self].requests = @ + 1]
    /\ UNCHANGED <<now, mu, tokens, pc, op, req, args, ret, lastSet, ops,
                 owner, refs, sl, rwmu>>

\* The caller has the result (client, err) in hand.
GcDone(self) ==
    /\ pc[self] = "gc_done"
    /\ Return(self)
    /\ UNCHANGED <<now, mu, tokens, lastSet, ops, owner, refs, sl, rwmu>>

Next ==
    \/ Tick
    \/ \E self \in Procs :
        \/ CallGetToken(self)
        \/ CallSetToken(self)
        \/ GtLock(self)
        \/ GtRead(self)
        \/ GtValid(self)
        \/ GtDelete(self)
        \/ GtUnlock(self)
        \/ StLock(self)
        \/ StWrite(self)
        \/ StUnlock(self)
        \/ CallGetClient(self)
        \/ GcLookup(self)
        \/ GcLookupRet(self)
        \/ GcBuild(self)
        \/ GcSign(self)
        \/ GcExchange(self)
        \/ GcStore(self)
        \/ GcReturn(self)
        \/ ClientDo(self)
        \/ GcDone(self)

Spec == Init /\ [][Next]_vars

(***************************************************************************)
(* Callers that write to a token they still hold.  SetToken stores the     *)
(* caller's *oauth2.Token itself (c.tokens[key] = token) and GetToken      *)
(* returns the stored pointer (return token, true): refs is the set of     *)
(* keys whose entry is an object a caller holds a pointer to.  Under Spec  *)
(* callers leave the tokens alone once handed over; under SpecShared they  *)
(* may assign to a field of a token they hold, without taking the lock.    *)
(***************************************************************************)
CallerWrites == {"AccessToken", "Expiry"}

\* token.AccessToken = "x", or token.Expiry = <a time in the past>
Changed(t, field) ==
    IF field = "AccessToken" THEN [t EXCEPT !.AccessToken = "x"]
    ELSE [t EXCEPT !.Expiry = StartTime - 5]

\* The caller writes to the token it passed to SetToken, or received from
\* GetToken, for key k; the object is the cache's entry when k is in refs.
CallerWrite(self) ==
    /\ Ready(self)
    /\ \E k \in DOMAIN lastSet, field \in CallerWrites :
          tokens' = IF k \in refs /\ k \in DOMAIN tokens
                    THEN [tokens EXCEPT ![k] = Changed(@, field)]
                    ELSE tokens
    /\ ops' = ops + 1
    /\ UNCHANGED <<now, mu, pc, op, req, args, loc, ret, gh, lastSet, owner, refs, sl, rwmu>>

(***************************************************************************)
(* The caller's context.  Under SpecCancel the context of a GetClient call *)
(* can be cancelled (or its deadline can pass) while the call is blocked   *)
(* in the signer or in the request to the token endpoint.  SignJwt is      *)
(* called with ctx; getAccessToken is not given ctx and posts with         *)
(* http.PostForm, which knows no context.                                  *)
(***************************************************************************)
Cancel(self) ==
    /\ pc[self] \in {"gc_sign", "gc_exchange"}
    /\ ~loc[self].ctxDone
    /\ loc' = [loc EXCEPT ![self].ctxDone = TRUE]
    /\ gh' = [gh EXCEPT ![self].cancelledAt = pc[self]]
    /\ UNCHANGED <<now, mu, tokens, pc, op, req, args, ret, lastSet, ops,
                 owner, refs, sl, rwmu>>

NextCancel ==
    \/ Next
    \/ \E self \in Procs : Cancel(self)

SpecCancel == Init /\ [][NextCancel]_vars

(***************************************************************************)
(* apierrors.HandleError (google/apierrors/apierrors.go:49-60), called by  *)
(* an HTTP handler with the error it has in hand.  Under SpecHandle the    *)
(* goroutines are request handlers that each pass an error to HandleError. *)
(***************************************************************************)
StatusInternalServerError == 500

GenericMessage == "An error occurred while processing your request"

\* http.Error(w, error, code): the status, and the text followed by a newline
Error(error, code) == [StatusCode |-> code, Body |-> error \o "\n"]

\* The errors the handlers pass: API errors with several statuses and bodies,
\* an error of another type, and an API error wrapped by fmt.Errorf.
HandlerErrors ==
    {GoogleAPIError(st, b) : st \in {403, 404, 500},
                             b \in {"Not Found", "Forbidden", ""}}
        \cup {NewError("generic", "generic error"),
              Errorf("error signing JWT", GoogleAPIError(404, "Not Found"))}

\* HandleError that sends the error's body to the client.
HandleError_EchoBody(err) ==
    IF err.kind = "GoogleAPIError" /\ err.ctx = <<>>
    THEN Error(err.Body, err.StatusCode)
    ELSE Error("Internal server error", StatusInternalServerError)

\* switch e := err.(type) { case *GoogleAPIError: ... default: ... }; the
\* type switch does not look through a wrapping error.
HandleError(err) ==
    IF err.kind = "GoogleAPIError" /\ err.ctx = <<>>
    THEN Error(GenericMessage, err.StatusCode)
    ELSE Error("Internal server error", StatusInternalServerError)

CallHandleError(self) ==
    /\ Ready(self)
    /\ \E err \in HandlerErrors :
          loc' = [loc EXCEPT ![self].err = err]
    /\ ops' = ops + 1
    /\ op' = [op EXCEPT ![self] = "HandleError"]
    /\ pc' = [pc EXCEPT ![self] = "he_switch"]
    /\ UNCHANGED <<now, mu, tokens, req, args, ret, gh, lastSet, owner, refs, sl, rwmu>>

HeSwitch(self) ==
    /\ pc[self] = "he_switch"
    /\ loc' = [loc EXCEPT ![self].w = HandleError(loc[self].err)]
    /\ pc' = [pc EXCEPT ![self] = "he_done"]
    /\ UNCHANGED <<now, mu, tokens, op, req, args, ret, gh, lastSet, ops,
                 owner, refs, sl, rwmu>>

\* The response has gone out to the client.
HeDone(self) ==
    /\ pc[self] = "he_done"
    /\ Return(self)
    /\ UNCHANGED <<now, mu, tokens, lastSet, ops, owner, refs, sl, rwmu>>

NextHandle ==
    \E self \in Procs :
        \/ CallHandleError(self)
        \/ HeSwitch(self)
        \/ HeDone(self)

SpecHandle == Init /\ [][NextHandle]_vars

(***************************************************************************)
(* NewGoogleBaseServiceClient (google/services/                            *)
(* google_base_service_client.go:53-82), the caller of GetClient that      *)
(* turns its result into a service client or a typed API error.  Under     *)
(* SpecService a GetClient call may have been made by it.                  *)
(***************************************************************************)
StatusNotFound == 404

Digits == <<"0", "1", "2", "3", "4", "5", "6", "7", "8", "9">>

\* %d
RECURSIVE Itoa(_)
Itoa(n) == IF n < 10 THEN Digits[n + 1] ELSE Itoa(n \div 10) \o Digits[(n % 10) + 1]

\* err.Error(): a GoogleAPIError prints its status and error code, never its
\* Body; fmt.Errorf("<context>: %w", err) prints the context before the text
\* of the error it wraps.
ErrorText(err) ==
    Join(err.ctx \o
           <<IF err.kind = "GoogleAPIError"
             THEN "API request failed with status " \o Itoa(err.StatusCode)
                      \o " (Error Code: )"
             ELSE err.Body>>, ": ")

\* strings.Contains(s, substr)
Contains(s, substr) ==
    \E i \in 1..(Len(s) - Len(substr) + 1) :
        SubSeq(s, i, i + Len(substr) - 1) = substr

\* NewGoogleBaseServiceClient that looks for the known text at the start of
\* the error text only.
NewGoogleBaseServiceClient_Prefix(httpClient, err, targetServiceAccount) ==
    IF err # NoErr
    THEN IF SubSeq(ErrorText(err), 1, 27) = "Gaia id not found for email"
         THEN [client |-> NilClient,
               err |-> GoogleAPIError(StatusNotFound,
                          "Gaia ID not found for email " \o targetServiceAccount
                              \o ": " \o ErrorText(err))]
         ELSE [client |-> NilClient,
               err |-> GoogleAPIError(StatusInternalServerError,
                          "Error generating HTTP client: " \o ErrorText(err))]
    ELSE [client |-> httpClient, err |-> NoErr]

NewGoogleBaseServiceClient(httpClient, err, targetServiceAccount) ==
    IF err # NoErr
    THEN IF Contains(ErrorText(err), "Gaia id not found for email")
         THEN [client |-> NilClient,
               err |-> GoogleAPIError(StatusNotFound,
                          "Gaia ID not found for email " \o targetServiceAccount
                              \o ": " \o ErrorText(err))]
         ELSE [client |-> NilClient,
               err |-> GoogleAPIError(StatusInternalServerError,
                          "Error generating HTTP client: " \o ErrorText(err))]
    ELSE [client |-> httpClient, err |-> NoErr]

\* GenerateGoogleHTTPClient has returned (httpClient, err) to
\* NewGoogleBaseServiceClient, which decides what it returns in turn.
BsResult(self) ==
    /\ pc[self] = "gc_done"
    /\ gh[self].requests = 0
    /\ loc' = [loc EXCEPT ![self].svc =
                  NewGoogleBaseServiceClient(ret[self].client, ret[self].err,
                                             req[self].targetServiceAccount)]
    /\ pc' = [pc EXCEPT ![self] = "bs_done"]
    /\ UNCHANGED <<now, mu, tokens, op, req, args, ret, gh, lastSet, ops,
                 owner, refs, sl, rwmu>>

\* The caller has the (*GoogleBaseServiceClient, error) in hand.
BsDone(self) ==
    /\ pc[self] = "bs_done"
    /\ Return(self)
    /\ UNCHANGED <<now, mu, tokens, lastSet, ops, owner, refs, sl, rwmu>>

NextService ==
    \/ Next
    \/ \E self \in Procs : BsResult(self) \/ BsDone(self)

SpecService == Init /\ [][NextService]_vars

(***************************************************************************)
(* StructuredLogger.SetLogLevel and the Log methods (structured.go:67-182).*)
(* Under SpecLogger the program sets the level and logs in any order.      *)
(***************************************************************************)
MaxEntries == 2

LowerCase == "abcdefghijklmnopqrstuvwxyz"

UpperCase == "ABCDEFGHIJKLMNOPQRSTUVWXYZ"

\* strings.ToUpper, letter by letter
RECURSIVE ToUpper(_)
ToUpper(s) ==
    IF Len(s) = 0 THEN ""
    ELSE LET c == SubSeq(s, 1, 1)
             at == {i \in 1..Len(LowerCase) : SubSeq(LowerCase, i, i) = c}
         IN  (IF at = {} THEN c
              ELSE LET i == CHOOSE i \in at : TRUE IN SubSeq(UpperCase, i, i))
                 \o ToUpper(SubSeq(s, 2, Len(s)))

\* The arguments the program passes to SetLogLevel.
LevelArgs ==
    {"DEBUG", "INFO", "NOTICE", "WARNING", "ERROR", "CRITICAL", "ALERT",
     "EMERGENCY", "warning", "verbose"}

\* switch strings.ToUpper(level) { case "DEBUG": ... default: LevelInfo }
ParseLevel(level) ==
    LET u == ToUpper(level)
    IN  IF u = "DEBUG" THEN LevelDebug
        ELSE IF u = "INFO" THEN LevelInfo
        ELSE IF u = "NOTICE" THEN LevelNotice
        ELSE IF u = "WARNING" THEN LevelWarn
        ELSE IF u = "ERROR" THEN LevelError
        ELSE IF u = "CRITICAL" THEN LevelCritical
        ELSE IF u = "ALERT" THEN LevelAlert
        ELSE IF u = "EMERGENCY" THEN LevelEmergency
        ELSE LevelInfo

\* LogDebug ... LogEmergency: the level each method passes to Log.
LogMethods ==
    [DEBUG |-> LevelDebug, INFO |-> LevelInfo, NOTICE |-> LevelNotice,
     WARNING |-> LevelWarn, ERROR |-> LevelError, CRITICAL |-> LevelCritical,
     ALERT |-> LevelAlert, EMERGENCY |-> LevelEmergency]

\* SetLogLevel that keeps the level of the first call.
SetLogLevel_FirstWins(level) ==
    /\ sl' = [sl EXCEPT !.Level = IF sl.setTo = "" THEN ParseLevel(level) ELSE @,
                        !.setTo = level, !.logged = "", !.wrote = FALSE]
    /\ UNCHANGED <<now, mu, tokens, pc, op, req, args, loc, ret, gh, lastSet,
                 ops, owner, refs, rwmu>>

\* sl.logger = slog.New(slog.NewJSONHandler(sl.writer,
\*                 &slog.HandlerOptions{Level: slogLevel}))
SetLogLevel(level) ==
    /\ sl' = [sl EXCEPT !.Level = ParseLevel(level),
                        !.setTo = level, !.logged = "", !.wrote = FALSE]
    /\ UNCHANGED <<now, mu, tokens, pc, op, req, args, loc, ret, gh, lastSet,
                 ops, owner, refs, rwmu>>

\* sl.logger.LogAttrs(ctx, level, msg, attrs...): the handler is asked
\* Enabled(level), level >= its minimum, and writes one entry if so.
Log(severity) ==
    /\ Len(sl.buf) < MaxEntries
    /\ LET enabled == LogMethods[severity] >= sl.Level
       IN  sl' = [sl EXCEPT !.buf = IF enabled THEN Append(@, severity) ELSE @,
                           !.logged = severity, !.wrote = enabled]
    /\ UNCHANGED <<now, mu, tokens, pc, op, req, args, loc, ret, gh, lastSet,
                 ops, owner, refs, rwmu>>

\* buf.Reset(): the program empties the writer it gave the logger.
BufReset ==
    /\ sl.buf # <<>>
    /\ sl' = [sl EXCEPT !.buf = <<>>, !.logged = "", !.wrote = FALSE]
    /\ UNCHANGED <<now, mu, tokens, pc, op, req, args, loc, ret, gh, lastSet,
                 ops, owner, refs, rwmu>>

NextLogger ==
    \/ \E level \in LevelArgs : SetLogLevel(level)
    \/ \E severity \in DOMAIN LogMethods : Log(severity)
    \/ BufReset

SpecLogger == Init /\ [][NextLogger]_vars

(***************************************************************************)
(* TokenCache with a sync.RWMutex (token_cache.go:33-84).  GetToken takes  *)
(* the read lock and releases it by defer; when the entry it read is not   *)
(* valid it calls c.mu.Lock() while still holding the read lock.  Lock     *)
(* first bars new readers and then waits until every reader has left.      *)
(***************************************************************************)
CallRwGetToken(self) ==
    /\ Ready(self)
    /\ \E userEmail \in UserEmails, scopes \in ScopeLists :
          Begin(self, "GetToken", "rw_rlock", NoReq,
                [userEmail |-> userEmail, scopes |-> scopes, token |-> NilToken])
    /\ rwmu' = rwmu
    /\ sl' = sl

CallRwSetToken(self) ==
    /\ Ready(self)
    /\ \E userEmail \in UserEmails, scopes \in ScopeLists, token \in CallerTokens :
          Begin(self, "SetToken", "rw_lock", NoReq,
                [userEmail |-> userEmail, scopes |-> scopes, token |-> token])
    /\ rwmu' = rwmu
    /\ sl' = sl

\* c.mu.RLock(): waits while a writer holds the lock or waits for it
RwRLock(self) ==
    /\ pc[self] = "rw_rlock"
    /\ rwmu.writer = 0
    /\ rwmu.pending = 0
    /\ rwmu' = [rwmu EXCEPT !.readers = @ \cup {self}]
    /\ pc' = [pc EXCEPT ![self] = "rw_read"]
    /\ UNCHANGED <<now, mu, tokens, op, req, args, loc, ret, gh, lastSet, ops,
                 owner, refs, sl>>

\* key := getKey(...); token, exists := c.tokens[key];
\* if !exists { return nil, false }
RwRead(self) ==
    /\ pc[self] = "rw_read"
    /\ LET key == getKey(args[self].userEmail, args[self].scopes)
           exists == key \in DOMAIN tokens
           token == IF exists THEN tokens[key] ELSE NilToken
       IN  /\ loc' = [loc EXCEPT ![self].key = key, ![self].token = token,
                                 ![self].rtoken = NilToken, ![self].rfound = FALSE]
           /\ pc' = [pc EXCEPT ![self] =
                        IF ~exists THEN "rw_runlock" ELSE "rw_valid"]
    /\ UNCHANGED <<now, mu, tokens, op, req, args, ret, gh, lastSet, ops,
                 owner, refs, sl, rwmu>>

\* if !token.Valid() { c.mu.Lock(); ... }; return token, true
RwValid(self) ==
    /\ pc[self] = "rw_valid"
    /\ IF ~Valid(loc[self].token, now)
       THEN /\ pc' = [pc EXCEPT ![self] = "rw_lock"]
            /\ loc' = loc
       ELSE /\ pc' = [pc EXCEPT ![self] = "rw_runlock"]
            /\ loc' = [loc EXCEPT ![self].rtoken = loc[self].token,
                                  ![self].rfound = TRUE]
    /\ UNCHANGED <<now, mu, tokens, op, req, args, ret, gh, lastSet, ops,
                 owner, refs, sl, rwmu>>

\* c.mu.Lock(), first half: the writer takes its turn and bars new readers
RwLockPending(self) ==
    /\ pc[self] = "rw_lock"
    /\ rwmu.writer = 0
    /\ rwmu.pending = 0
    /\ rwmu' = [rwmu EXCEPT !.pending = self]
    /\ pc' = [pc EXCEPT ![self] = "rw_lock_wait"]
    /\ UNCHANGED <<now, mu, tokens, op, req, args, loc, ret, gh, lastSet, ops,
                 owner, refs, sl>>

\* c.mu.Lock(), second half: it has the lock once every reader has left
RwLock(self) ==
    /\ pc[self] = "rw_lock_wait"
    /\ rwmu.readers = {}
    /\ rwmu' = [rwmu EXCEPT !.writer = self, !.pending = 0]
    /\ pc' = [pc EXCEPT ![self] = "rw_write"]
    /\ UNCHANGED <<now, mu, tokens, op, req, args, loc, ret, gh, lastSet, ops,
                 owner, refs, sl>>

\* The map write under the write lock: delete(c.tokens, key) in GetToken,
\* c.tokens[key] = token in SetToken.
RwWrite(self) ==
    /\ pc[self] = "rw_write"
    /\ LET key == getKey(args[self].userEmail, args[self].scopes)
       IN  /\ tokens' = IF op[self] = "GetToken"
                        THEN [k \in DOMAIN tokens \ {key} |-> tokens[k]]
                        ELSE [k \in DOMAIN tokens \cup {key} |->
                                 IF k = key THEN args[self].token ELSE tokens[k]]
           /\ loc' = [loc EXCEPT ![self].key = key]
    /\ pc' = [pc EXCEPT ![self] = "rw_unlock"]
    /\ UNCHANGED <<now, mu, op, req, args, ret, gh, lastSet, ops, owner, refs,
                 sl, rwmu>>

\* c.mu.Unlock(): in GetToken the deferred RUnlock is still to come, SetToken
\* returns
RwUnlock(self) ==
    /\ pc[self] = "rw_unlock"
    /\ rwmu' = [rwmu EXCEPT !.writer = 0]
    /\ IF op[self] = "GetToken"
       THEN /\ pc' = [pc EXCEPT ![self] = "rw_runlock"]
            /\ UNCHANGED <<op, req, args, loc, ret, gh>>
       ELSE Return(self)
    /\ UNCHANGED <<now, mu, tokens, lastSet, ops, owner, refs, sl>>

\* defer c.mu.RUnlock(), and the return to the caller
RwRUnlock(self) ==
    /\ pc[self] = "rw_runlock"
    /\ rwmu' = [rwmu EXCEPT !.readers = @ \ {self}]
    /\ Return(self)
    /\ UNCHANGED <<now, mu, tokens, lastSet, ops, owner, refs, sl>>

RwStep(self) ==
    \/ RwRLock(self)
    \/ RwRead(self)
    \/ RwValid(self)
    \/ RwLockPending(self)
    \/ RwLock(self)
    \/ RwWrite(self)
    \/ RwUnlock(self)
    \/ RwRUnlock(self)

NextRW ==
    \/ Tick
    \/ \E self \in Procs :
        \/ CallRwGetToken(self)
        \/ CallRwSetToken(self)
        \/ RwStep(self)

\* A goroutine that can take a step is scheduled, and one that waits for a
\* lock that keeps becoming free gets it.
SpecRW ==
    /\ Init
    /\ [][NextRW]_vars
    /\ \A self \in Procs :
          /\ WF_vars(RwStep(self))
          /\ SF_vars(RwRLock(self) \/ RwLockPending(self) \/ RwLock(self))

(***************************************************************************)
(* The sync.Mutex TokenCache on its own, with the same scheduling.         *)
(***************************************************************************)
\* Callers of the cache alone make up to MaxCacheOps calls.
CallCacheGetToken(self) ==
    /\ pc[self] = "idle"
    /\ ops < MaxCacheOps
    /\ \E userEmail \in UserEmails, scopes \in ScopeLists :
          Begin(self, "GetToken", "gt_lock", NoReq,
                [userEmail |-> userEmail, scopes |-> scopes, token |-> NilToken])
    /\ UNCHANGED <<sl, rwmu>>

CallCacheSetToken(self) ==
    /\ pc[self] = "idle"
    /\ ops < MaxCacheOps
    /\ \E userEmail \in UserEmails, scopes \in ScopeLists, token \in CallerTokens :
          Begin(self, "SetToken", "st_lock", NoReq,
                [userEmail |-> userEmail, scopes |-> scopes, token |-> token])
    /\ UNCHANGED <<sl, rwmu>>

CacheStep(self) ==
    \/ GtLock(self)
    \/ GtRead(self)
    \/ GtValid(self)
    \/ GtDelete(self)
    \/ GtUnlock(self)
    \/ StLock(self)
    \/ StWrite(self)
    \/ StUnlock(self)

NextCache ==
    \/ Tick
    \/ \E self \in Procs :
        \/ CallCacheGetToken(self)
        \/ CallCacheSetToken(self)
        \/ CacheStep(self)

SpecCache ==
    /\ Init
    /\ [][NextCache]_vars
    /\ \A self \in Procs :
          /\ WF_vars(CacheStep(self))
          /\ SF_vars(GtLock(self) \/ StLock(self))

(***************************************************************************)
(* EnqueueTask (google/cloudtasks/cloudtasks.go:57-104).  Under SpecTasks  *)
(* the goroutines enqueue tasks.                                           *)
(***************************************************************************)
MaxTaskNameLen == 500

RECURSIVE Repeat(_, _)
Repeat(s, n) ==
    IF n = 0 THEN ""
    ELSE LET half == Repeat(s, n \div 2)
         IN  IF n % 2 = 0 THEN half \o half ELSE half \o half \o s

\* [a-zA-Z0-9_-]
NameChars == LowerCase \o UpperCase \o "0123456789" \o "_-"

IsNameChar(c) == \E i \in 1..Len(NameChars) : SubSeq(NameChars, i, i) = c

\* A pattern without its anchors matches when any part of the name does.
MatchTaskName_Unanchored(taskName) ==
    \E i \in 1..Len(taskName) : IsNameChar(SubSeq(taskName, i, i))

\* regexp.MatchString(`^[a-zA-Z0-9_-]{1,500}$`, taskName); $ is the end of the
\* text, a trailing newline does not match
MatchTaskName(taskName) ==
    /\ Len(taskName) >= 1
    /\ Len(taskName) =< MaxTaskNameLen
    /\ \A i \in 1..Len(taskName) : IsNameChar(SubSeq(taskName, i, i))

TaskNames ==
    {"task-1", "Task_2", "", "bad name", "a/b", "task\n",
     Repeat("a", MaxTaskNameLen), Repeat("a", MaxTaskNameLen + 1)}

\* Payloads: one json.Marshal serializes, one it rejects (a channel, say).
TaskBodies == {"payload", "unserializable"}

CallEnqueueTask(self) ==
    /\ Ready(self)
    /\ \E taskName \in TaskNames, body \in TaskBodies :
          loc' = [loc EXCEPT ![self].tk =
                     [NoTask EXCEPT !.taskName = taskName, !.body = body]]
    /\ ops' = ops + 1
    /\ op' = [op EXCEPT ![self] = "EnqueueTask"]
    /\ pc' = [pc EXCEPT ![self] = "et_client"]
    /\ UNCHANGED <<now, mu, tokens, req, args, ret, gh, lastSet, owner, refs,
                 sl, rwmu>>

\* taskClient, err := createCloudTasksClient(ctx); if err != nil { return
\* fmt.Errorf("failed to create client: %v", err) }; defer taskClient.Close()
EtClient(self) ==
    /\ pc[self] = "et_client"
    /\ \/ /\ loc' = [loc EXCEPT ![self].tk.err =
                          NewError("client", "failed to create client")]
          /\ pc' = [pc EXCEPT ![self] = "et_done"]
       \/ /\ loc' = [loc EXCEPT ![self].tk.client = "open"]
          /\ pc' = [pc EXCEPT ![self] = "et_marshal"]
    /\ UNCHANGED <<now, mu, tokens, op, req, args, ret, gh, lastSet, ops,
                 owner, refs, sl, rwmu>>

\* requestBody, err := json.Marshal(body)
EtMarshal(self) ==
    /\ pc[self] = "et_marshal"
    /\ IF loc[self].tk.body = "unserializable"
       THEN /\ loc' = [loc EXCEPT ![self].tk.err =
                           NewError("serialize", "failed to serialize request")]
            /\ pc' = [pc EXCEPT ![self] = "et_close"]
       ELSE /\ loc' = loc
            /\ pc' = [pc EXCEPT ![self] = "et_validate"]
    /\ UNCHANGED <<now, mu, tokens, op, req, args, ret, gh, lastSet, ops,
                 owner, refs, sl, rwmu>>

\* if matched, _ := regexp.MatchString(taskNamePattern, taskName); !matched
EtValidate(self) ==
    /\ pc[self] = "et_validate"
    /\ IF ~MatchTaskName(loc[self].tk.taskName)
       THEN /\ loc' = [loc EXCEPT ![self].tk.err =
                           NewError("validation",
                               "task name does not meet Cloud Tasks naming conventions")]
            /\ pc' = [pc EXCEPT ![self] = "et_close"]
       ELSE /\ loc' = loc
            /\ pc' = [pc EXCEPT ![self] = "et_create"]
    /\ UNCHANGED <<now, mu, tokens, op, req, args, ret, gh, lastSet, ops,
                 owner, refs, sl, rwmu>>

\* _, err = taskClient.CreateTask(ctx, req): the request goes out, and the
\* service accepts or rejects it
EtCreateTask(self) ==
    /\ pc[self] = "et_create"
    /\ \E failed \in BOOLEAN :
          loc' = [loc EXCEPT ![self].tk.creates = @ + 1,
                             ![self].tk.err =
                                 IF failed
                                 THEN NewError("create", "failed to create task")
                                 ELSE NoErr]
    /\ pc' = [pc EXCEPT ![self] = "et_close"]
    /\ UNCHANGED <<now, mu, tokens, op, req, args, ret, gh, lastSet, ops,
                 owner, refs, sl, rwmu>>

\* The deferred taskClient.Close(); an error of Close is only printed.
EtClose(self) ==
    /\ pc[self] = "et_close"
    /\ loc' = [loc EXCEPT ![self].tk.client = "closed"]
    /\ pc' = [pc EXCEPT ![self] = "et_done"]
    /\ UNCHANGED <<now, mu, tokens, op, req, args, ret, gh, lastSet, ops,
                 owner, refs, sl, rwmu>>

\* The caller has the error in hand.
EtDone(self) ==
    /\ pc[self] = "et_done"
    /\ Return(self)
    /\ UNCHANGED <<now, mu, tokens, lastSet, ops, owner, refs, sl, rwmu>>

NextTasks ==
    \E self \in Procs :
        \/ CallEnqueueTask(self)
        \/ EtClient(self)
        \/ EtMarshal(self)
        \/ EtValidate(self)
        \/ EtCreateTask(self)
        \/ EtClose(self)
        \/ EtDone(self)

SpecTasks == Init /\ [][NextTasks]_vars

NextShared ==
    \/ Next
    \/ \E self \in Procs : CallerWrite(self)

SpecShared == Init /\ [][NextShared]_vars

(***************************************************************************)
(* Properties.  A GetToken call is about to return at "gt_unlock": it      *)
(* still holds the lock, loc.rtoken and loc.rfound are what it returns,    *)
(* gh.seenToken is the entry it read and gh.clock the time at which it     *)
(* examined the entry.                                                     *)
(***************************************************************************)
Returning(p) == pc[p] = "gt_unlock"

\* The expiry of t is not in the future at time `at`.
Expired(t, at) == ~t.isNil /\ t.Expiry # ZeroTime /\ t.Expiry =< at

\* The expiry of t is in the past at time `at`.
InPast(t, at) == ~t.isNil /\ t.Expiry # ZeroTime /\ t.Expiry < at

\* The expiry of t is in the future at time `at`.
InFuture(t, at) == ~t.isNil /\ t.Expiry > at

\* C1: no GetToken call returns found=true with a token that is expired at
\* the time of the call, and when a call reports a miss for an expired entry
\* the entry has been removed from the map before the call returns.
C1_NoExpiredHit ==
    \A p \in Procs :
        Returning(p) =>
            /\ loc[p].rfound =>
                  ~loc[p].rtoken.isNil /\ ~Expired(loc[p].rtoken, gh[p].clock)
            /\ (~loc[p].rfound /\ Expired(gh[p].seenToken, gh[p].clock)) =>
                  loc[p].key \notin DOMAIN tokens

C1_Witness ==
    \E p \in Procs :
        /\ Returning(p)
        /\ ~loc[p].rfound
        /\ Expired(gh[p].seenToken, gh[p].clock)
        /\ gh[p].evictions = 1

\* C2 as stated: a token whose expiry is in the future at the time of the
\* GetToken call, stored by the last SetToken on the key, is returned with
\* found=true.
C2_SetThenGet_Original ==
    \A p \in Procs :
        (/\ Returning(p)
         /\ loc[p].key \in DOMAIN lastSet
         /\ InFuture(lastSet[loc[p].key], gh[p].clock))
            => loc[p].rfound /\ loc[p].rtoken = lastSet[loc[p].key]

\* C2 as amended: a token with a non-empty access token whose expiry is zero
\* or at least ExpiryDelta (10 s) after the time of the GetToken call, stored
\* by the last SetToken on the key, is returned with found=true.
C2_SetThenGet ==
    \A p \in Procs :
        (/\ Returning(p)
         /\ loc[p].key \in DOMAIN lastSet
         /\ ~lastSet[loc[p].key].isNil
         /\ lastSet[loc[p].key].AccessToken # ""
         /\ \/ lastSet[loc[p].key].Expiry = ZeroTime
            \/ lastSet[loc[p].key].Expiry >= gh[p].clock + ExpiryDelta)
            => loc[p].rfound /\ loc[p].rtoken = lastSet[loc[p].key]

C2_Witness ==
    \E p \in Procs :
        /\ Returning(p)
        /\ op[p] = "GetToken"
        /\ loc[p].key \in DOMAIN lastSet
        /\ lastSet[loc[p].key].Expiry >= gh[p].clock + ExpiryDelta
        /\ loc[p].rfound
        /\ loc[p].rtoken = lastSet[loc[p].key]

IsPermutation(s, t) ==
    /\ Len(s) = Len(t)
    /\ \E f \in [1..Len(s) -> 1..Len(s)] :
          /\ \A i, j \in 1..Len(s) : i # j => f[i] # f[j]
          /\ \A i \in 1..Len(s) : t[i] = s[f[i]]

\* C4: the cache key does not depend on the order of the scopes: a GetToken
\* returns found=true whenever the map holds a valid token stored under the
\* same identity and a permutation of the call's scope list.
C4_OrderIndependent ==
    \A p \in Procs :
        Returning(p) =>
            \A s \in ScopeLists :
                (/\ IsPermutation(s, args[p].scopes)
                 /\ getKey(args[p].userEmail, s) \in DOMAIN tokens
                 /\ Valid(tokens[getKey(args[p].userEmail, s)], gh[p].clock))
                    => loc[p].rfound

\* Where a call is about to write or delete a map entry, and where it is
\* reading the map or working on the entry it read.
MapWritePcs == {"gt_delete", "st_write"}

MapAccessPcs == {"gt_read", "gt_valid", "gt_delete", "st_write"}

\* C5: accesses to the map are mutually exclusive: no call is writing or
\* deleting a map entry while another call is reading or writing the map.
C5_MutualExclusion ==
    \A p, q \in Procs :
        (p # q /\ pc[p] \in MapWritePcs) => pc[q] \notin MapAccessPcs

C5_Witness ==
    \E p, q \in Procs :
        /\ p # q
        /\ pc[p] \in MapWritePcs
        /\ mu = p
        /\ pc[q] \in {"gt_lock", "st_lock"}

(***************************************************************************)
(* GetClient.  At "gc_done" the call has its result (ret.client, ret.err)  *)
(* in hand; gh counts what this call did: evictions and stores on the      *)
(* cache, calls to the signer and requests to the token endpoint.          *)
(***************************************************************************)
InGetClient(p) == op[p] = "GetClient"

Failed(p) == InGetClient(p) /\ pc[p] = "gc_done" /\ ret[p].err # NoErr

RequestKey(p) == getKey(req[p].userEmail, <<req[p].scopes>>)

\* C6: when the lookup of a GetClient call finds a valid token under the
\* request's key, the call goes straight to its return, the client it returns
\* carries that cached token, and it calls neither the signer nor the token
\* endpoint.
C6_HitNoNetwork ==
    \A p \in Procs :
        (InGetClient(p) /\ gh[p].seen = "valid") =>
            /\ pc[p] \in {"gt_unlock", "gc_lookup_ret", "gc_done"}
            /\ gh[p].signCalls = 0
            /\ gh[p].postCalls = 0
            /\ pc[p] = "gc_done" =>
                  /\ ret[p].err = NoErr
                  /\ ret[p].client = NewClient(gh[p].seenToken.AccessToken)

C6_Witness ==
    \E p \in Procs :
        /\ InGetClient(p)
        /\ pc[p] = "gc_done"
        /\ gh[p].lookup = "hit"
        /\ gh[p].seen = "valid"
        /\ ret[p].client = NewClient("t1")

\* C7: when a GetClient call has stored the token it obtained after a miss,
\* the cache holds, under the key a lookup for the same request computes, a
\* token with the obtained access token that a lookup accepts as a hit.
C7_StoredForNextCall ==
    \A p \in Procs :
        (InGetClient(p) /\ pc[p] = "st_unlock") =>
            /\ RequestKey(p) \in DOMAIN tokens
            /\ tokens[RequestKey(p)].AccessToken = loc[p].accessToken
            /\ Valid(tokens[RequestKey(p)], now)

\* C8 as stated: a failed GetClient call has added, overwritten and removed
\* no cache entry.
C8_FailureLeavesCache_Original ==
    \A p \in Procs :
        Failed(p) => gh[p].stores = 0 /\ gh[p].evictions = 0

\* C8 as amended: a failed GetClient call has stored nothing (no entry added
\* or overwritten); the only change it can have made to the cache is its
\* lookup's eviction of an entry under the request's key that was no longer
\* valid.
C8_FailureLeavesCache ==
    \A p \in Procs :
        Failed(p) =>
            /\ gh[p].stores = 0
            /\ gh[p].evictions =< 1
            /\ gh[p].evictions = 1 =>
                  /\ gh[p].seen = "invalid"
                  /\ ~Valid(gh[p].seenToken, gh[p].clock)
                  /\ loc[p].key = RequestKey(p)

C8_Witness ==
    \E p \in Procs :
        /\ Failed(p)
        /\ gh[p].failed = "exchange"
        /\ gh[p].evictions = 1
        /\ gh[p].stores = 0

\* The contexts with which the errors of a stage are wrapped.
StageContexts(stage) ==
    IF stage = "build" THEN {"error creating JWT assertion"}
    ELSE IF stage = "sign" THEN {"error signing JWT"}
    ELSE IF stage = "exchange"
    THEN {"error posting to token endpoint", "error unmarshaling token response"}
    ELSE {}

\* C9: a GetClient call that fails in a stage stops there: it returns no
\* client, has run no later stage, and its error is wrapped with a context
\* that names the failed stage.
C9_FailFastWrapped ==
    \A p \in Procs :
        Failed(p) =>
            /\ ret[p].client = NilClient
            /\ gh[p].stores = 0
            /\ gh[p].failed = "build" => gh[p].signCalls = 0 /\ gh[p].postCalls = 0
            /\ gh[p].failed = "sign" => gh[p].signCalls = 1 /\ gh[p].postCalls = 0
            /\ gh[p].failed = "exchange" => gh[p].signCalls = 1 /\ gh[p].postCalls = 1
            /\ ret[p].err.ctx # <<>>
            /\ ret[p].err.ctx[1] \in StageContexts(gh[p].failed)

Incomplete(r) ==
    r.targetServiceAccount = "" \/ r.userEmail = "" \/ r.scopes = ""

\* C10: createJWTAssertion fails with the validation error whenever the
\* target service account, the user email or the scopes are empty, and a
\* GetClient call that has built the assertion from such a request returns
\* that error, with no client, and has called neither the signer nor the token
\* endpoint.
C10_ValidationError ==
    /\ \A r \in Requests :
          Incomplete(r) =>
              createJWTAssertion(r.targetServiceAccount, r.userEmail,
                                 r.scopes, now).err.kind = "validation"
    /\ \A p \in Procs :
          (InGetClient(p) /\ gh[p].built /\ Incomplete(req[p])) =>
              /\ pc[p] = "gc_done"
              /\ ret[p].err.kind = "validation"
              /\ ret[p].client = NilClient
              /\ gh[p].signCalls = 0
              /\ gh[p].postCalls = 0

C10_Witness ==
    \E p \in Procs :
        /\ Failed(p)
        /\ gh[p].built
        /\ req[p].scopes = ""
        /\ ret[p].err.kind = "validation"
        /\ gh[p].signCalls = 0

\* The access token a GetClient call obtained: the cached one on a hit, the
\* one the exchange returned on a miss.
Obtained(p) ==
    IF gh[p].lookup = "hit" THEN gh[p].seenToken.AccessToken
    ELSE loc[p].accessToken

\* C11: every request issued through the client a GetClient call returned
\* carries Authorization: Bearer <token>, <token> being the access token the
\* call obtained (from the exchange on a miss, from the cache on a hit).
C11_BearerToken ==
    \A p \in Procs :
        (InGetClient(p) /\ gh[p].requests > 0) =>
            /\ ret[p].err = NoErr
            /\ loc[p].authHeader = "Bearer " \o Obtained(p)

C11_Witness ==
    \E p \in Procs :
        /\ InGetClient(p)
        /\ gh[p].requests = MaxRequests
        /\ gh[p].lookup = "miss"
        /\ gh[p].postCalls = 1
        /\ loc[p].authHeader = "Bearer T"

(***************************************************************************)
(* The exchange, getAccessToken.  gh.resp is the answer of the token       *)
(* endpoint to the call's request; Answers are the answers the function is *)
(* applied to directly.                                                    *)
(***************************************************************************)
Is2xx(status) == status >= 200 /\ status < 300

Statuses == {100, 199, 200, 201, 204, 299, 300, 302, 400, 401, 404, 500, 503}

Bodies == {TokenBody, "{}", "bad request", ""}

Answers == {Response(FALSE, st, b) : st \in Statuses, b \in Bodies}

\* The call has received an answer from the token endpoint.
Answered(p) == InGetClient(p) /\ gh[p].postCalls = 1 /\ ~gh[p].resp.failed

Malformed(err) ==
    err.kind = "json" /\ err.ctx = <<"error unmarshaling token response">>

\* C13: for every answer with a 2xx status whose body is not a JSON object
\* with an access_token, getAccessToken fails with the malformed-response
\* error; it never returns success with an empty access token, and no
\* GetClient call goes on with one.
C13_MalformedRejected ==
    /\ \A resp \in Answers :
          /\ (Is2xx(resp.StatusCode) /\ resp.body # TokenBody) =>
                /\ Malformed(getAccessToken(resp).err)
                /\ getAccessToken(resp).accessToken = ""
          /\ ~(getAccessToken(resp).err = NoErr
               /\ getAccessToken(resp).accessToken = "")
    /\ \A p \in Procs :
          (Answered(p) /\ Is2xx(gh[p].resp.StatusCode)
                       /\ gh[p].resp.body # TokenBody) =>
              /\ pc[p] = "gc_done"
              /\ Malformed(ret[p].err)
              /\ ret[p].client = NilClient

\* C14: for every answer with a 2xx status whose body is a JSON object with
\* access_token = T, getAccessToken returns T with no error, and the GetClient
\* call that received it goes on with T.
C14_Any2xxAccepted ==
    /\ \A resp \in Answers :
          (Is2xx(resp.StatusCode) /\ resp.body = TokenBody) =>
              /\ getAccessToken(resp).err = NoErr
              /\ getAccessToken(resp).accessToken = "T"
    /\ \A p \in Procs :
          (Answered(p) /\ Is2xx(gh[p].resp.StatusCode)
                       /\ gh[p].resp.body = TokenBody) =>
              /\ ret[p].err = NoErr
              /\ loc[p].accessToken = "T"

(***************************************************************************)
(* Cache keys.  owner[k] is the (userEmail, scopes) pair of the SetToken   *)
(* call that last wrote the entry of key k.                                *)
(***************************************************************************)
ScopeSet(scopes) == {scopes[i] : i \in 1..Len(scopes)}

\* Two pairs that are the same (identity, scope set).
SamePair(userEmail1, scopes1, userEmail2, scopes2) ==
    userEmail1 = userEmail2 /\ ScopeSet(scopes1) = ScopeSet(scopes2)

\* Pairs getKey is applied to directly, some with '|' or ',' inside.
KeyIdentities == {"u", "u|a"}

KeyScopeLists == ScopeLists \cup {<<"b">>, <<"a|b">>, <<"a", "b", "c">>, <<"a,b", "c">>}

\* C15: keys do not collide: two pairs that differ as (identity, scope set)
\* have different keys, and a GetToken never returns a token that was stored
\* under a pair that differs from its own as (identity, scope set).
C15_NoCollision ==
    /\ \A u1, u2 \in KeyIdentities : \A s1, s2 \in KeyScopeLists :
          ~SamePair(u1, s1, u2, s2) => getKey(u1, s1) # getKey(u2, s2)
    /\ \A p \in Procs :
          (Returning(p) /\ loc[p].rfound) =>
              SamePair(owner[loc[p].key].userEmail, owner[loc[p].key].scopes,
                       args[p].userEmail, args[p].scopes)

C17_NotShared ==
    [][(\E self \in Procs : CallerWrite(self)) => tokens' = tokens]_vars

\* C18: once the context of a GetClient call is done while the call is in
\* the signer or in the token exchange, the call is aborted at that stage: it
\* goes to no later stage and stores nothing, and what it returns is the
\* context's error and no client.
C18_CancelAborts ==
    \A p \in Procs :
        (InGetClient(p) /\ loc[p].ctxDone) =>
            /\ pc[p] \in {gh[p].cancelledAt, "gc_done"}
            /\ gh[p].stores = 0
            /\ pc[p] = "gc_done" =>
                  /\ ret[p].err.kind = "context"
                  /\ ret[p].client = NilClient

\* Times at which the builder is applied directly.
BuildTimes == {StartTime + i * TickSeconds : i \in 0..MaxTicks}

IsAPIError(err) == err.kind = "GoogleAPIError" /\ err.ctx = <<>>

Handled(p) == pc[p] = "he_done" /\ IsAPIError(loc[p].err)

ServiceFailed(p) == pc[p] = "bs_done" /\ ret[p].err # NoErr

IdentityNotFound(p) ==
    Contains(ErrorText(ret[p].err), "Gaia id not found for email")

\* C21: a GetClient failure whose error text has "Gaia id not found for
\* email" becomes an API error with status 404, every other GetClient failure
\* one with status 500, and neither returns a client.
C21_NotFoundTyped ==
    \A p \in Procs :
        ServiceFailed(p) =>
            /\ loc[p].svc.client.isNil
            /\ loc[p].svc.err.kind = "GoogleAPIError"
            /\ loc[p].svc.err.ctx = <<>>
            /\ loc[p].svc.err.StatusCode =
                   IF IdentityNotFound(p) THEN 404 ELSE 500

C21_Witness ==
    \E p, q \in Procs :
        /\ ServiceFailed(p)
        /\ gh[p].failed = "sign"
        /\ IdentityNotFound(p)
        /\ loc[p].svc.err.StatusCode = 404
        /\ ServiceFailed(q)
        /\ gh[q].failed = "exchange"
        /\ loc[q].svc.err.StatusCode = 500

(***************************************************************************)
(* The log level.                                                          *)
(***************************************************************************)
Severities ==
    <<"DEBUG", "INFO", "NOTICE", "WARNING", "ERROR", "CRITICAL", "ALERT",
      "EMERGENCY">>

Rank(name) == CHOOSE i \in 1..Len(Severities) : Severities[i] = name

SeverityNames == {Severities[i] : i \in 1..Len(Severities)}

\* C22: after SetLogLevel(L), the last one deciding, a log call at level M
\* writes an entry if and only if M is at or above L in the order DEBUG <
\* INFO < NOTICE < WARNING < ERROR < CRITICAL < ALERT < EMERGENCY.
C22_LevelFilter ==
    (sl.setTo \in SeverityNames /\ sl.logged # "") =>
        /\ sl.wrote <=> Rank(sl.logged) >= Rank(sl.setTo)
        /\ sl.wrote => (sl.buf # <<>> /\ sl.buf[Len(sl.buf)] = sl.logged)

C22_Witness ==
    /\ sl.setTo = "WARNING"
    /\ sl.logged = "INFO"
    /\ ~sl.wrote
    /\ sl.buf = <<"INFO">>

(***************************************************************************)
(* The stages of a GetClient call.                                         *)
(***************************************************************************)
Missed(p) == InGetClient(p) /\ gh[p].lookup = "miss"

\* C23: on a cache miss the stages run in the order build, sign, exchange,
\* store, return: the signer is called only with a built assertion, the
\* token-endpoint request is sent only after the signer returned a signed
\* JWT and carries exactly that JWT as its assertion, the store happens only
\* after the exchange succeeded, and the client is returned after the store.
C23_StageOrder ==
    \A p \in Procs :
        /\ (InGetClient(p) /\ gh[p].lookup = "none") =>
               (~gh[p].built /\ gh[p].signCalls = 0 /\ gh[p].postCalls = 0)
        /\ Missed(p) =>
            /\ gh[p].signCalls > 0 => (gh[p].built /\ gh[p].failed # "build")
            /\ gh[p].postCalls > 0 =>
                   /\ gh[p].signCalls > 0
                   /\ gh[p].failed # "sign"
                   /\ gh[p].signed \in SignedJwts
                   /\ gh[p].form.assertion = gh[p].signed
                   /\ gh[p].form.grant_type =
                          "urn:ietf:params:oauth:grant-type:jwt-bearer"
            /\ gh[p].stores > 0 =>
                   (gh[p].postCalls > 0 /\ gh[p].failed = "none")
            /\ (pc[p] \in {"gc_return", "gc_done"} /\ gh[p].failed = "none") =>
                   gh[p].stores > 0

C23_Witness ==
    \E p \in Procs :
        /\ Missed(p)
        /\ pc[p] = "gc_done"
        /\ ~ret[p].client.isNil
        /\ gh[p].form.assertion = "signed_jwt"
        /\ gh[p].stores = 1

\* C24: within one GetClient call the signer is called at most once and the
\* token endpoint receives at most one request; a failed attempt ends the call
\* with an error and no client, and no later stage is attempted.
C24_NoRetry ==
    \A p \in Procs :
        InGetClient(p) =>
            /\ gh[p].signCalls =< 1
            /\ gh[p].postCalls =< 1
            /\ gh[p].failed # "none" =>
                   /\ pc[p] = "gc_done"
                   /\ ret[p].err # NoErr
                   /\ ret[p].client.isNil
                   /\ gh[p].failed = "build" =>
                          (gh[p].signCalls = 0 /\ gh[p].postCalls = 0)
                   /\ gh[p].failed = "sign" =>
                          (gh[p].signCalls = 1 /\ gh[p].postCalls = 0)
                   /\ gh[p].failed = "exchange" =>
                          (gh[p].signCalls = 1 /\ gh[p].postCalls = 1)

C24_Witness ==
    \E p, q \in Procs :
        /\ InGetClient(p)
        /\ gh[p].failed = "sign"
        /\ gh[p].signCalls = 1
        /\ InGetClient(q)
        /\ gh[q].failed = "exchange"
        /\ gh[q].postCalls = 1
        /\ ret[q].err # NoErr

(***************************************************************************)
(* The lock and the network stages.                                        *)
(***************************************************************************)
NetworkPcs == {"gc_build", "gc_sign", "gc_exchange"}

LockHeldPcs ==
    {"gt_read", "gt_valid", "gt_delete", "gt_unlock", "st_write", "st_unlock"}

\* C25: the cache lock is never held across signing or token exchange: a
\* call that is building, signing or exchanging does not hold the lock, and
\* whoever holds it is inside GetToken or SetToken, between Lock and Unlock;
\* so concurrent identical requests on a cold cache each do their own sign
\* and exchange and each store a token.
C25_LockNotHeldAcrossNetwork ==
    /\ \A p \in Procs : pc[p] \in NetworkPcs \cup {"gc_lookup_ret", "gc_store",
                                                  "gc_return", "gc_done"}
                            => mu # p
    /\ mu # 0 => pc[mu] \in LockHeldPcs

C25_Witness ==
    \E p, q \in Procs :
        /\ p # q
        /\ Missed(p)
        /\ Missed(q)
        /\ RequestKey(p) = RequestKey(q)
        /\ pc[p] = "gc_done"
        /\ pc[q] = "gc_done"
        /\ gh[p].signCalls = 1 /\ gh[p].postCalls = 1 /\ gh[p].stores = 1
        /\ gh[q].signCalls = 1 /\ gh[q].postCalls = 1 /\ gh[q].stores = 1

(***************************************************************************)
(* Termination of the cache operations.                                    *)
(***************************************************************************)
HoldsNoLock(p) ==
    /\ mu # p
    /\ p \notin rwmu.readers
    /\ rwmu.writer # p
    /\ rwmu.pending # p

\* C26: every GetToken and SetToken call eventually returns, with every lock
\* it took released, whatever the cache holds under its key.
C26_CallsReturn ==
    \A p \in Procs : (pc[p] # "idle") ~> (pc[p] = "idle" /\ HoldsNoLock(p))

(***************************************************************************)
(* Frame of the cache operations.                                          *)
(***************************************************************************)
CallKey(p) == getKey(args[p].userEmail, args[p].scopes)

OthersUnchanged(key) ==
    \A k \in (DOMAIN tokens \cup DOMAIN tokens') \ {key} :
        /\ k \in DOMAIN tokens
        /\ k \in DOMAIN tokens'
        /\ tokens'[k] = tokens[k]

\* C27: a step of a GetToken or SetToken call changes at most the entry of
\* the call's own key; the map changes only at SetToken's write and at the
\* eviction of an entry GetToken found invalid, so a GetToken that hits or
\* finds nothing leaves the map as it was; and while a call holds the lock no
\* other call changes the map.
C27_FrameEffect ==
    [][/\ \A p \in Procs :
            (pc'[p] # pc[p] /\ op[p] \in {"GetToken", "SetToken"}) =>
                /\ OthersUnchanged(CallKey(p))
                /\ tokens' # tokens =>
                       \/ op[p] = "SetToken" /\ pc[p] = "st_write"
                       \/ /\ op[p] = "GetToken"
                          /\ pc[p] = "gt_delete"
                          /\ gh[p].seen = "invalid"
       /\ (mu # 0 /\ pc'[mu] = pc[mu]) => tokens' = tokens]_vars

C27_Witness ==
    \E p \in Procs :
        /\ op[p] = "GetToken"
        /\ pc[p] = "gt_unlock"
        /\ gh[p].evictions = 1
        /\ \E k \in DOMAIN tokens :
              /\ k # loc[p].key
              /\ tokens[k] = lastSet[k]
              /\ ~Valid(tokens[k], now)

(***************************************************************************)
(* What GetToken returns.  At "gt_unlock" the result (loc.rtoken,          *)
(* loc.rfound) is fixed; gh.seen tells what the map held under the key.    *)
(***************************************************************************)
GetTokenResult(p) == op[p] = "GetToken" /\ pc[p] = "gt_unlock"

\* C28: GetToken never returns found = true with a nil token; for a key that
\* is absent (a new cache, a key never set) and for a key whose stored
\* value is a nil token it returns (nil, false).
C28_NoNilHit ==
    \A p \in Procs :
        GetTokenResult(p) =>
            /\ loc[p].rfound => ~loc[p].rtoken.isNil
            /\ gh[p].seen \in {"absent", "nil"} =>
                   (loc[p].rtoken.isNil /\ ~loc[p].rfound)

C28_Witness ==
    \E p \in Procs :
        /\ GetTokenResult(p)
        /\ gh[p].seen = "nil"
        /\ loc[p].key \in DOMAIN tokens
        /\ tokens[loc[p].key].isNil
        /\ ~loc[p].rfound

(***************************************************************************)
(* The expiry of what GetClient stores.                                    *)
(***************************************************************************)
\* A token that stops being valid once the clock reaches its expiry.
Expires(t) == t.Expiry # ZeroTime /\ expired(t, t.Expiry)

GoodTaskNames == {"task-1", "Task_2", Repeat("a", 500)}

Enqueued(p) == op[p] = "EnqueueTask" /\ pc[p] = "et_done"

\* C30: EnqueueTask with a task name that does not match
\* ^[a-zA-Z0-9_-]{1,500}$ returns an error and issues no CreateTask request,
\* and on every return path after the client was created the client has been
\* closed.
C30_ValidatedAndClosed ==
    \A p \in Procs :
        /\ op[p] = "EnqueueTask" =>
               (loc[p].tk.creates > 0 => loc[p].tk.taskName \in GoodTaskNames)
        /\ Enqueued(p) =>
               /\ loc[p].tk.taskName \notin GoodTaskNames =>
                      (loc[p].tk.err # NoErr /\ loc[p].tk.creates = 0)
               /\ loc[p].tk.client # "open"
               /\ loc[p].tk.err.kind \in {"validation", "serialize", "create", "nil"}
                      => loc[p].tk.client = "closed"

C30_Witness ==
    \E p, q \in Procs :
        /\ Enqueued(p)
        /\ loc[p].tk.taskName = "task\n"
        /\ loc[p].tk.err.kind = "validation"
        /\ loc[p].tk.client = "closed"
        /\ Enqueued(q)
        /\ loc[q].tk.creates = 1
        /\ loc[q].tk.err.kind = "create"
        /\ loc[q].tk.client = "closed"

====
